---------------------------- MODULE Spec2Model ----------------------------
(***************************************************************************)
(* A model of gurmukhiutils: the Unicode normalisation and conversion      *)
(* engine of gurmukhiutils/unicode.py.                                     *)
(*                                                                         *)
(* A text is a sequence of Unicode code points (natural numbers); a Python *)
(* str is exactly that.  Every function of the module is pure, so the      *)
(* state machine is a caller that holds a text in `string' and applies the *)
(* functions to it, one call per step.                                     *)
(***************************************************************************)
EXTENDS Integers, Sequences, FiniteSets, TLC

VARIABLES
    input,              \* the text the caller started from
    string,             \* the caller's current text (the last returned value)
    op,                 \* the function called last ("none" before any call)
    calls,              \* the number of calls made so far
    arg,                \* the argument of the last call
    unicode_standard,   \* the unicode_standard argument the caller uses
    moved,              \* unicode(): local `string' after the sihari move
    mapped,             \* unicode(): local `string' after the ASCII map
    decoded,            \* the list returned by the last decode_unicode
    encoded,            \* the list returned by the last encode_unicode
    raised,             \* the exception the last call raised ("none" if none)
    removals,           \* the removals of the last strip or strip_past call
    as_list,            \* the removals were passed as one list
    pc                  \* strip_line_endings(): "while" inside its loop

vars == <<input, string, op, calls, arg, unicode_standard, moved, mapped,
          decoded, encoded, raised, removals, as_list, pc>>

(***************************************************************************)
(* Bounds of the model.                                                    *)
(***************************************************************************)
MaxSortLen == 4         \* longest input text of SpecSort
MaxLen == 4             \* longest input text of Spec
MaxLegacyLen == 4       \* longest input text of SpecUnicode
MaxMarkerLen == 4       \* longest input text of SpecMarkers
MaxUnicodeCalls == 3    \* calls made in one run of SpecUnicode / SpecMarkers
MaxCodecLen == 3        \* longest input text of SpecCodec
MaxCalls == 2           \* calls made in one run of SpecSort / Spec
MaxStripLen == 4        \* longest input text of SpecStrip
MaxRemovals == 2        \* most removals of one call in SpecStrip
MaxRemovalLen == 2      \* longest removal string of SpecStrip
MaxStripCalls == 1      \* calls made in one run of SpecStrip
MaxLineLen == 5         \* longest input text of SpecLineEndings
MaxResortLen == 5       \* longest input text of SpecResort
MaxTotalLen == 4        \* longest input text of SpecTotal
MaxStrings == 2         \* longest list of strings of SpecEncode
MaxHexLen == 6          \* longest string in a list of SpecEncode
MaxHexChars == 7        \* most characters in a list of SpecEncode, in all

(***************************************************************************)
(* Python built-ins on str and list, as the code uses them.                *)
(***************************************************************************)

\* All texts over the characters A of length at most n.
Texts(A, n) == UNION {[1..k -> A] : k \in 0..n}

\* The characters of a str, as a set (membership in a regex class [...]).
Chars(s) == {s[i] : i \in 1..Len(s)}

\* s[p:] starts with k (p is 1-based).
StartsWith(s, p, k) ==
    /\ p + Len(k) - 1 <= Len(s)
    /\ \A j \in 1..Len(k) : s[p + j - 1] = k[j]

\* k in s
Contains(s, k) == \E p \in 1..(Len(s) + 1) : StartsWith(s, p, k)

\* The value that stands for a raised ValueError of str.index.
ValueError == -1

\* str.index(e): the 0-based index of the first occurrence of e.
str_index(s, e) ==
    IF \E i \in 1..Len(s) : s[i] = e
    THEN (CHOOSE i \in 1..Len(s) : s[i] = e /\ \A j \in 1..(i - 1) : s[j] # e) - 1
    ELSE ValueError

\* str.replace(key, value) from position p on: every non-overlapping
\* occurrence of key, found left to right, becomes value.
RECURSIVE str_replace_from(_, _, _, _)
str_replace_from(s, p, key, value) ==
    IF p > Len(s) THEN <<>>
    ELSE IF StartsWith(s, p, key)
         THEN value \o str_replace_from(s, p + Len(key), key, value)
         ELSE <<s[p]>> \o str_replace_from(s, p + 1, key, value)

\* Mutant of str_replace: only the first occurrence is replaced (count=1).
str_replace_first(s, key, value) ==
    IF \E p \in 1..Len(s) : StartsWith(s, p, key)
    THEN LET p == CHOOSE q \in 1..Len(s) :
                      /\ StartsWith(s, q, key)
                      /\ \A r \in 1..(q - 1) : ~StartsWith(s, r, key)
         IN  SubSeq(s, 1, p - 1) \o value \o SubSeq(s, p + Len(key), Len(s))
    ELSE s

\* str.replace("", value) from position p on: value before every character
\* and behind the last one.
RECURSIVE str_replace_empty(_, _, _)
str_replace_empty(s, p, value) ==
    IF p > Len(s) THEN value
    ELSE value \o <<s[p]>> \o str_replace_empty(s, p + 1, value)

\* str.replace(key, value).  A key whose first character is not in s does
\* not occur in s, and s is returned as it is.
str_replace(s, key, value) ==
    IF key = <<>> THEN str_replace_empty(s, 1, value)
    ELSE IF \A p \in 1..Len(s) : s[p] # key[1] THEN s
         ELSE str_replace_from(s, 1, key, value)

\* for key, value in map.items(): string = string.replace(key, value)
\* for the entries lo..hi of map, in the order the dict declares them: the
\* entries of the first half, then on their result those of the second half.
\* The test of Len(done) makes the first half complete before the second
\* half starts, as the loop does.
RECURSIVE replace_range(_, _, _, _)
replace_range(map, lo, hi, s) ==
    IF lo > hi THEN s
    ELSE IF lo = hi THEN str_replace(s, map[lo][1], map[lo][2])
         ELSE LET mid == (lo + hi) \div 2
                  done == replace_range(map, lo, mid, s)
              IN  IF Len(done) >= 0
                  THEN replace_range(map, mid + 1, hi, done)
                  ELSE done

replace_items(map, s) == replace_range(map, 1, Len(map), s)

\* sorted(s, key=lambda e: order.index(e)): a stable sort.  InsertByKey puts
\* e behind every element of the sorted list t whose key is not larger.
RECURSIVE InsertByKey(_, _, _)
InsertByKey(e, t, order) ==
    IF t = <<>> THEN <<e>>
    ELSE IF str_index(order, e) < str_index(order, t[Len(t)])
         THEN InsertByKey(e, SubSeq(t, 1, Len(t) - 1), order) \o <<t[Len(t)]>>
         ELSE t \o <<e>>

\* Mutant of sorted: sorted(set(s), ...), which drops repeated characters.
RECURSIVE sorted_of_set(_, _)
sorted_of_set(s, order) ==
    IF s = <<>> THEN <<>>
    ELSE LET rest == sorted_of_set(SubSeq(s, 1, Len(s) - 1), order)
         IN  IF s[Len(s)] \in Chars(rest) THEN rest
             ELSE InsertByKey(s[Len(s)], rest, order)

RECURSIVE sorted(_, _)
sorted(s, order) ==
    IF s = <<>> THEN <<>>
    ELSE InsertByKey(s[Len(s)], sorted(SubSeq(s, 1, Len(s) - 1), order), order)

\* The length of the longest run of characters of the class cls at s[p:]
\* (a greedy [cls]* of a regular expression).
RECURSIVE ClassRun(_, _, _)
ClassRun(s, p, cls) ==
    IF p <= Len(s) /\ s[p] \in cls THEN 1 + ClassRun(s, p + 1, cls) ELSE 0

(***************************************************************************)
(* sort_diacritics                                                         *)
(***************************************************************************)
subjoin_constructor == \H0A4D

nukta_udaat_yakash_order_list == << \H0A3C, \H0A51, \H0A75 >>

vowel_order_list ==
    << \H0A3F, \H0A47, \H0A48, \H0A4B, \H0A4C, \H0A41, \H0A42, \H0A3E, \H0A40 >>

remaining_diacritic_order_list == << \H0A01, \H0A71, \H0A02, \H0A70, \H0A03 >>

subjoin_consonants == << \H0A39, \H0A30, \H0A35, \H0A1F, \H0A24, \H0A28, \H0A1A >>

generated_single_chars ==
    nukta_udaat_yakash_order_list \o vowel_order_list
        \o remaining_diacritic_order_list

\* "([" + generated_single_chars + "]*)": the length matched at s[p:].
d_pattern(s, p) == ClassRun(s, p, Chars(generated_single_chars))

\* "(" + subjoin_constructor + "[" + subjoin_consonants + "])?"
s_pattern(s, p) ==
    IF /\ p + 1 <= Len(s)
       /\ s[p] = subjoin_constructor
       /\ s[p + 1] \in Chars(subjoin_consonants)
    THEN 2 ELSE 0

\* d_pattern + s_pattern + d_pattern: the length of the match at s[p:].  Each
\* part is greedy and may be empty, so the match never backtracks.
regex_match_pattern(s, p) ==
    LET d1 == d_pattern(s, p)
        sj == s_pattern(s, p + d1)
        d2 == d_pattern(s, p + d1 + sj)
    IN  d1 + sj + d2

\* Mutant of generated_diacritic_order: the vowel signs before the subjoined
\* letters.
generated_diacritic_order_vowels_first ==
    nukta_udaat_yakash_order_list \o vowel_order_list
        \o <<subjoin_constructor>> \o subjoin_consonants
        \o remaining_diacritic_order_list

\* Mutant of generated_diacritic_order: without the subjoin_constructor.
generated_diacritic_order_without_constructor ==
    nukta_udaat_yakash_order_list
        \o subjoin_consonants \o vowel_order_list
        \o remaining_diacritic_order_list

generated_diacritic_order ==
    nukta_udaat_yakash_order_list \o <<subjoin_constructor>>
        \o subjoin_consonants \o vowel_order_list
        \o remaining_diacritic_order_list

\* Mutant of regex_sort_func: len(match) > 2, which leaves pairs unsorted.
regex_sort_func_skips_pairs(match) ==
    IF Len(match) > 2 THEN sorted(match, generated_diacritic_order) ELSE match

regex_sort_func(match) ==
    IF Len(match) > 1 THEN sorted(match, generated_diacritic_order) ELSE match

\* regex_sort_func raises ValueError: generated_diacritic_order.index(e) finds
\* no e for a character e of a match of more than one character.
regex_sort_func_raises(match) ==
    /\ Len(match) > 1
    /\ \E i \in 1..Len(match) :
          str_index(generated_diacritic_order, match[i]) = ValueError

\* re.sub(regex_match_pattern, regex_sort_func, string) from position p on.
\* An empty match is replaced by the empty string and the scan copies one
\* character.
RECURSIVE sort_diacritics_from(_, _)
sort_diacritics_from(s, p) ==
    IF p > Len(s) THEN <<>>
    ELSE LET n == regex_match_pattern(s, p)
         IN  IF n = 0
             THEN <<s[p]>> \o sort_diacritics_from(s, p + 1)
             ELSE regex_sort_func(SubSeq(s, p, p + n - 1))
                      \o sort_diacritics_from(s, p + n)

sort_diacritics(s) == sort_diacritics_from(s, 1)

\* sort_diacritics raises: regex_sort_func raises for one of the matches that
\* re.sub finds from position p on.
RECURSIVE sort_diacritics_raises_from(_, _)
sort_diacritics_raises_from(s, p) ==
    IF p > Len(s) THEN FALSE
    ELSE LET n == regex_match_pattern(s, p)
         IN  IF n = 0
             THEN sort_diacritics_raises_from(s, p + 1)
             ELSE \/ regex_sort_func_raises(SubSeq(s, p, p + n - 1))
                  \/ sort_diacritics_raises_from(s, p + n)

sort_diacritics_raises(s) == sort_diacritics_raises_from(s, 1)

(***************************************************************************)
(* sanitize_unicode and unicode_normalize                                  *)
(***************************************************************************)

\* The decomposed sequences and their single-character representations, in
\* the order the dict declares them.
unicode_sanitization_map ==
    << <<<<\H0A73, \H0A4B>>, <<\H0A13>>>>,
       <<<<\H0A05, \H0A3E>>, <<\H0A06>>>>,
       <<<<\H0A72, \H0A3F>>, <<\H0A07>>>>,
       <<<<\H0A72, \H0A40>>, <<\H0A08>>>>,
       <<<<\H0A73, \H0A41>>, <<\H0A09>>>>,
       <<<<\H0A73, \H0A42>>, <<\H0A0A>>>>,
       <<<<\H0A72, \H0A47>>, <<\H0A0F>>>>,
       <<<<\H0A05, \H0A48>>, <<\H0A10>>>>,
       <<<<\H0A05, \H0A4C>>, <<\H0A14>>>>,
       <<<<\H0A32, \H0A3C>>, <<\H0A33>>>>,
       <<<<\H0A38, \H0A3C>>, <<\H0A36>>>>,
       <<<<\H0A59, \H0A3C>>, <<\H0A59>>>>,
       <<<<\H0A5A, \H0A3C>>, <<\H0A5A>>>>,
       <<<<\H0A5B, \H0A3C>>, <<\H0A5B>>>>,
       <<<<\H0A5E, \H0A3C>>, <<\H0A5E>>>>,
       <<<<\H0A71, \H0A02>>, <<\H0A01>>>> >>

sanitize_unicode(s) == replace_items(unicode_sanitization_map, s)

unicode_normalize(s) == sanitize_unicode(sort_diacritics(s))

\* unicode_normalize raises when its sort_diacritics does; str.replace of
\* sanitize_unicode raises nothing.
unicode_normalize_raises(s) == sort_diacritics_raises(s)

(***************************************************************************)
(* unicode                                                                 *)
(***************************************************************************)

\* AnmolLipi/GurbaniAkhar & GurbaniLipi: legacy key, Unicode Gurmukhi value,
\* in the order the dict declares them.  The keys are the characters
\* a..z, A..Z, 0..9, [ ] \ | ` ~ @ ^ &, then the Latin-1 and punctuation
\* keys, "<>" before "<" and ">", "Aa-ring" pair before its two halves, and
\* last the keys that map to the empty string.
common_ascii_to_unicode_map ==
    << <<<<\H0061>>, <<\H0A73>>>>, <<<<\H0062>>, <<\H0A2C>>>>,
       <<<<\H0063>>, <<\H0A1A>>>>, <<<<\H0064>>, <<\H0A26>>>>,
       <<<<\H0065>>, <<\H0A72>>>>, <<<<\H0066>>, <<\H0A21>>>>,
       <<<<\H0067>>, <<\H0A17>>>>, <<<<\H0068>>, <<\H0A39>>>>,
       <<<<\H0069>>, <<\H0A3F>>>>, <<<<\H006A>>, <<\H0A1C>>>>,
       <<<<\H006B>>, <<\H0A15>>>>, <<<<\H006C>>, <<\H0A32>>>>,
       <<<<\H006D>>, <<\H0A2E>>>>, <<<<\H006E>>, <<\H0A28>>>>,
       <<<<\H006F>>, <<\H0A4B>>>>, <<<<\H0070>>, <<\H0A2A>>>>,
       <<<<\H0071>>, <<\H0A24>>>>, <<<<\H0072>>, <<\H0A30>>>>,
       <<<<\H0073>>, <<\H0A38>>>>, <<<<\H0074>>, <<\H0A1F>>>>,
       <<<<\H0075>>, <<\H0A41>>>>, <<<<\H0076>>, <<\H0A35>>>>,
       <<<<\H0077>>, <<\H0A3E>>>>, <<<<\H0078>>, <<\H0A23>>>>,
       <<<<\H0079>>, <<\H0A47>>>>, <<<<\H007A>>, <<\H0A5B>>>>,
       <<<<\H0041>>, <<\H0A05>>>>, <<<<\H0042>>, <<\H0A2D>>>>,
       <<<<\H0043>>, <<\H0A1B>>>>, <<<<\H0044>>, <<\H0A27>>>>,
       <<<<\H0045>>, <<\H0A13>>>>, <<<<\H0046>>, <<\H0A22>>>>,
       <<<<\H0047>>, <<\H0A18>>>>, <<<<\H0048>>, <<\H0A4D, \H0A39>>>>,
       <<<<\H0049>>, <<\H0A40>>>>, <<<<\H004A>>, <<\H0A1D>>>>,
       <<<<\H004B>>, <<\H0A16>>>>, <<<<\H004C>>, <<\H0A33>>>>,
       <<<<\H004D>>, <<\H0A70>>>>, <<<<\H004E>>, <<\H0A02>>>>,
       <<<<\H004F>>, <<\H0A4C>>>>, <<<<\H0050>>, <<\H0A2B>>>>,
       <<<<\H0051>>, <<\H0A25>>>>, <<<<\H0052>>, <<\H0A4D, \H0A30>>>>,
       <<<<\H0053>>, <<\H0A36>>>>, <<<<\H0054>>, <<\H0A20>>>>,
       <<<<\H0055>>, <<\H0A42>>>>, <<<<\H0056>>, <<\H0A5C>>>>,
       <<<<\H0057>>, <<\H0A3E, \H0A02>>>>, <<<<\H0058>>, <<\H0A2F>>>>,
       <<<<\H0059>>, <<\H0A48>>>>, <<<<\H005A>>, <<\H0A5A>>>>,
       <<<<\H0030>>, <<\H0A66>>>>, <<<<\H0031>>, <<\H0A67>>>>,
       <<<<\H0032>>, <<\H0A68>>>>, <<<<\H0033>>, <<\H0A69>>>>,
       <<<<\H0034>>, <<\H0A6A>>>>, <<<<\H0035>>, <<\H0A6B>>>>,
       <<<<\H0036>>, <<\H0A6C>>>>, <<<<\H0037>>, <<\H0A6D>>>>,
       <<<<\H0038>>, <<\H0A6E>>>>, <<<<\H0039>>, <<\H0A6F>>>>,
       <<<<\H005B>>, <<\H0964>>>>, <<<<\H005D>>, <<\H0965>>>>,
       <<<<\H005C>>, <<\H0A1E>>>>, <<<<\H007C>>, <<\H0A19>>>>,
       <<<<\H0060>>, <<\H0A71>>>>, <<<<\H007E>>, <<\H0A71>>>>,
       <<<<\H0040>>, <<\H0A51>>>>, <<<<\H005E>>, <<\H0A59>>>>,
       <<<<\H0026>>, <<\H0A5E>>>>, <<<<\H2020>>, <<\H0A4D, \H0A1F>>>>,
       <<<<\H00FC>>, <<\H0A41>>>>, <<<<\H00AE>>, <<\H0A4D, \H0A30>>>>,
       <<<<\H00B4>>, <<\H0A75>>>>, <<<<\H00A8>>, <<\H0A42>>>>,
       <<<<\H00B5>>, <<\H0A70>>>>, <<<<\H00E6>>, <<\H0A3C>>>>,
       <<<<\H00A1>>, <<\H0A74>>>>, <<<<\H0192>>, <<\H0A28, \H0A42, \H0A70>>>>,
       <<<<\H0153>>, <<\H0A4D, \H0A24>>>>, <<<<\H00CD>>, <<\H0A4D, \H0A35>>>>,
       <<<<\H00CE>>, <<\H0A4D, \H0A2F>>>>, <<<<\H00CF>>, <<\H0A75>>>>,
       <<<<\H00D2>>, <<\H0965>>>>, <<<<\H00DA>>, <<\H0A03>>>>,
       <<<<\H02C6>>, <<\H0A02>>>>, <<<<\H02DC>>, <<\H0A4D, \H0A28>>>>,
       <<<<\H003C, \H003E>>, <<\H0A74>>>>, <<<<\H003C>>, <<\H0A74>>>>,
       <<<<\H003E>>, <<\H262C>>>>, <<<<\H00C5, \H00E5>>, <<\H0A74>>>>,
       <<<<\H00C5>>, <<\H0A74>>>>, <<<<\H00E5>>, <<\H0A74>>>>,
       <<<<\H00A7>>, <<\H0A4D, \H0A39, \H0A42>>>>, <<<<\H00A4>>, <<\H0A71>>>>,
       <<<<\H00E7>>, <<\H0A4D, \H0A1A>>>>, <<<<\H00C7>>, <<\H262C>>>>,
       <<<<\H201A>>, <<\H2741>>>>, <<<<\H00C6>>, <<>>>>, <<<<\H00D8>>, <<>>>>,
       <<<<\H00FF>>, <<>>>>, <<<<\H0152>>, <<>>>>, <<<<\H2030>>, <<>>>>,
       <<<<\H00D3>>, <<>>>>, <<<<\H00D4>>, <<>>>> >>

\* OpenGurbaniAkhar: half-yayya forms and subscript numbers to the private
\* use code points of Sant Lipi.
special_sant_lipi_map ==
    << <<<<\H00CE>>, <<\HEEEC>>>>, <<<<\H0A4D, \H0A2F>>, <<\HEEEC>>>>,
       <<<<\H00EE>>, <<\HEEEE>>>>, <<<<\H00EF>>, <<\HEEEF>>>>,
       <<<<\H2080>>, <<\HEE80>>>>, <<<<\H2081>>, <<\HEE81>>>>,
       <<<<\H2082>>, <<\HEE82>>>>, <<<<\H2083>>, <<\HEE83>>>>,
       <<<<\H2084>>, <<\HEE84>>>>, <<<<\H2085>>, <<\HEE85>>>>,
       <<<<\H2086>>, <<\HEE86>>>>, <<<<\H2087>>, <<\HEE87>>>>,
       <<<<\H2088>>, <<\HEE88>>>>, <<<<\H2089>>, <<\HEE89>>>> >>

sant_lipi_to_unicode_compliant_map ==
    << <<<<\HEEEC>>, <<\H0A4D, \H0A2F>>>>, <<<<\HEEEE>>, <<\H0A4D, \H0A2F>>>>,
       <<<<\HEEEF>>, <<\H0A2F>>>>, <<<<\HEE80>>, <<\H2080>>>>,
       <<<<\HEE81>>, <<\H2081>>>>, <<<<\HEE82>>, <<\H2082>>>>,
       <<<<\HEE83>>, <<\H2083>>>>, <<<<\HEE84>>, <<\H2084>>>>,
       <<<<\HEE85>>, <<\H2085>>>>, <<<<\HEE86>>, <<\H2086>>>>,
       <<<<\HEE87>>, <<\H2087>>>>, <<<<\HEE88>>, <<\H2088>>>>,
       <<<<\HEE89>>, <<\H2089>>>> >>

\* ascii_base_letters = "a-zA-Z\\|^&..." : the characters of the str, a
\* single backslash among them.
ascii_base_letters ==
    << \H61, \H2D, \H7A, \H41, \H2D, \H5A, \H5C, \H7C, \H5E, \H26,
       \HCE, \HEE, \HEF >>

\* The set of characters that "[" + cls + "]" matches, from position p of cls
\* on: a backslash escapes the character behind it, x-y is a range, any
\* other character stands for itself.
RECURSIVE regex_class_from(_, _)
regex_class_from(cls, p) ==
    IF p > Len(cls) THEN {}
    ELSE IF cls[p] = \H5C /\ p + 1 <= Len(cls)
         THEN {cls[p + 1]} \cup regex_class_from(cls, p + 2)
         ELSE IF p + 2 <= Len(cls) /\ cls[p + 1] = \H2D
              THEN (cls[p]..cls[p + 2]) \cup regex_class_from(cls, p + 3)
              ELSE {cls[p]} \cup regex_class_from(cls, p + 1)

regex_class(cls) == regex_class_from(cls, 1)

\* re.sub(r"(i)([" + ascii_base_letters + "])", r"\2\1", string) from
\* position p on.
RECURSIVE move_sihari_from(_, _)
move_sihari_from(s, p) ==
    IF p > Len(s) THEN <<>>
    ELSE IF /\ s[p] = \H69
            /\ p + 1 <= Len(s)
            /\ s[p + 1] \in regex_class(ascii_base_letters)
         THEN <<s[p + 1], s[p]>> \o move_sihari_from(s, p + 2)
         ELSE <<s[p]>> \o move_sihari_from(s, p + 1)

move_sihari(s) == move_sihari_from(s, 1)

\* The class of the second group of the half-yayya pattern.
half_yayya_diacritics ==
    << \H0A4D, \H0A3C, \H0A75, \H0A3F, \H0A47, \H0A48, \H0A4B, \H0A4C, \H0A41,
       \H0A42, \H0A3E, \H0A40, \H0A01, \H0A71, \H0A02, \H0A70, \H0A03 >>

\* re.sub("(joiner yayya)([...]+)", r"yayya\2", string) from position p on.
RECURSIVE fix_half_yayya_from(_, _)
fix_half_yayya_from(s, p) ==
    IF p > Len(s) THEN <<>>
    ELSE LET n == ClassRun(s, p + 2, Chars(half_yayya_diacritics))
         IN  IF StartsWith(s, p, << \H0A4D, \H0A2F >>) /\ n >= 1
             THEN << \H0A2F >> \o SubSeq(s, p + 2, p + 1 + n)
                      \o fix_half_yayya_from(s, p + 2 + n)
             ELSE <<s[p]>> \o fix_half_yayya_from(s, p + 1)

fix_half_yayya(s) == fix_half_yayya_from(s, 1)

\* unicode() from the local `string' that the ASCII map has produced on:
\* the Sant Lipi map, the normalization and, for "Unicode Consortium", the
\* map back to compliant Unicode and the half-yayya fix.
unicode_from_mapped(m, standard) ==
    LET normalized == unicode_normalize(replace_items(special_sant_lipi_map, m))
    IN  IF standard = "Unicode Consortium"
        THEN fix_half_yayya(
                 replace_items(sant_lipi_to_unicode_compliant_map, normalized))
        ELSE normalized

\* unicode() raises when its unicode_normalize does; the str.replace loops
\* and the two re.sub with a replacement template raise nothing.
unicode_raises_from_mapped(m) ==
    unicode_normalize_raises(replace_items(special_sant_lipi_map, m))

unicode(s, standard) ==
    unicode_from_mapped(
        replace_items(common_ascii_to_unicode_map, move_sihari(s)), standard)

(***************************************************************************)
(* decode_unicode and encode_unicode                                       *)
(***************************************************************************)

\* The digit of value d (0..15) in format(..., "x"): 0-9, then a-f.
hex_digit(d) == IF d < 10 THEN \H30 + d ELSE \H61 + (d - 10)

\* format(n, "x"): the lowercase hexadecimal digits of n.
RECURSIVE format_x(_)
format_x(n) ==
    IF n < 16 THEN <<hex_digit(n)>>
    ELSE format_x(n \div 16) \o <<hex_digit(n % 16)>>

\* format(n, "04x"): padded with zeros on the left to four digits.
format_04x(n) ==
    LET digits == format_x(n)
    IN  IF Len(digits) < 4
        THEN [i \in 1..(4 - Len(digits)) |-> \H30] \o digits
        ELSE digits

\* The value of a character as a digit of base 16, ValueError if it is none.
digit_value(c) ==
    IF c \in \H30..\H39 THEN c - \H30
    ELSE IF c \in \H61..\H66 THEN c - \H61 + 10
    ELSE IF c \in \H41..\H46 THEN c - \H41 + 10
    ELSE ValueError

\* Mutant of int_16: int(string), which reads the digits in base 10.
RECURSIVE int_10(_)
int_10(s) ==
    IF s = <<>> \/ \E i \in 1..Len(s) : digit_value(s[i]) \notin 0..9
    THEN ValueError
    ELSE IF Len(s) = 1 THEN digit_value(s[1])
         ELSE int_10(SubSeq(s, 1, Len(s) - 1)) * 10 + digit_value(s[Len(s)])

\* The characters int() skips around a literal (those below U+0100).
int_whitespace == { \H09, \H0A, \H0B, \H0C, \H0D, \H20, \H85, \HA0 }

RECURSIVE int_lstrip(_)
int_lstrip(s) ==
    IF s # <<>> /\ s[1] \in int_whitespace THEN int_lstrip(Tail(s)) ELSE s

RECURSIVE int_rstrip(_)
int_rstrip(s) ==
    IF s # <<>> /\ s[Len(s)] \in int_whitespace
    THEN int_rstrip(SubSeq(s, 1, Len(s) - 1))
    ELSE s

\* The literal int(string, 16) reads has a sign "+" or "-" in front.
int_signed(s) ==
    LET t == int_lstrip(int_rstrip(s))
    IN  t # <<>> /\ t[1] \in { \H2B, \H2D }

\* The digits part of the literal int(string, 16) reads: the string without
\* the whitespace around it, without its sign, and without the prefix "0x"
\* or "0X" and one underscore that may follow the prefix.
int_digits(s) ==
    LET t == int_lstrip(int_rstrip(s))
        u == IF int_signed(s) THEN Tail(t) ELSE t
        prefixed == Len(u) >= 2 /\ u[1] = \H30 /\ u[2] \in { \H78, \H58 }
        v == IF prefixed THEN Tail(Tail(u)) ELSE u
    IN  IF prefixed /\ v # <<>> /\ v[1] = \H5F THEN Tail(v) ELSE v

\* int(string, 16) raises ValueError: the digits part is empty, starts or
\* ends with an underscore, has two underscores in a row, or has a character
\* that is neither an underscore nor a digit of base 16.
int_16_raises(s) ==
    LET w == int_digits(s)
    IN  \/ w = <<>>
        \/ w[1] = \H5F
        \/ w[Len(w)] = \H5F
        \/ \E i \in 1..(Len(w) - 1) : w[i] = \H5F /\ w[i + 1] = \H5F
        \/ \E i \in 1..Len(w) : w[i] # \H5F /\ digit_value(w[i]) = ValueError

\* The value of the digits of w in base 16; underscores are skipped.
RECURSIVE int_value(_)
int_value(w) ==
    IF w = <<>> THEN 0
    ELSE IF w[Len(w)] = \H5F THEN int_value(SubSeq(w, 1, Len(w) - 1))
         ELSE int_value(SubSeq(w, 1, Len(w) - 1)) * 16 + digit_value(w[Len(w)])

\* int(string, 16): the value of the literal, ValueError when it raises.
int_16(s) ==
    IF int_16_raises(s) THEN ValueError
    ELSE IF int_signed(s) /\ int_lstrip(s)[1] = \H2D
         THEN 0 - int_value(int_digits(s))
         ELSE int_value(int_digits(s))

\* chr(n): the character of code point n, ValueError outside range(0x110000).
chr(n) == IF n \in 0..\H10FFFF THEN n ELSE ValueError

\* decode_unicode: one {item: hex} per character, as the pair <<item, hex>>.
decode_unicode(s) == [i \in 1..Len(s) |-> <<s[i], format_04x(s[i])>>]

\* encode_unicode raises when int() or chr() raises for one of the strings.
encode_unicode_raises(strings) ==
    \E i \in 1..Len(strings) :
        \/ int_16_raises(strings[i])
        \/ chr(int_16(strings[i])) = ValueError

\* encode_unicode: the list it returns when nothing is raised.
encode_unicode(strings) == [i \in 1..Len(strings) |-> chr(int_16(strings[i]))]

(***************************************************************************)
(* strip, strip_past and strip_line_endings (gurmukhiutils/strip.py)       *)
(***************************************************************************)

\* The characters str.strip() and str.rstrip() remove: those of str.isspace().
str_whitespace ==
    (\H09..\H0D) \cup (\H1C..\H20) \cup { \H85, \HA0, \H1680 }
        \cup (\H2000..\H200A) \cup { \H2028, \H2029, \H202F, \H205F, \H3000 }

RECURSIVE str_rstrip(_)
str_rstrip(s) ==
    IF s # <<>> /\ s[Len(s)] \in str_whitespace
    THEN str_rstrip(SubSeq(s, 1, Len(s) - 1))
    ELSE s

RECURSIVE str_lstrip(_)
str_lstrip(s) ==
    IF s # <<>> /\ s[1] \in str_whitespace THEN str_lstrip(Tail(s)) ELSE s

\* Mutant of str_strip: input.rstrip(), which keeps the whitespace in front.
str_strip_right_only(s) == str_rstrip(s)

str_strip(s) == str_lstrip(str_rstrip(s))

\* str.find(sub): the lowest 0-based index where sub occurs, -1 if nowhere.
str_find(s, sub) ==
    IF Contains(s, sub)
    THEN (CHOOSE p \in 1..(Len(s) + 1) :
              /\ StartsWith(s, p, sub)
              /\ \A q \in 1..(p - 1) : ~StartsWith(s, q, sub)) - 1
    ELSE -1

\* removals[0].split() of strip and strip_past raises IndexError when the
\* call has no removal at all; a list as the first argument makes split
\* raise AttributeError, which is caught and makes the list the removals.
\* r is the removal strings and l tells that they came as one list.
removals_raise(r, l) == ~l /\ r = <<>>

\* for removal in removals: input = input.replace(removal, "")
strip(s, r) == replace_items([i \in 1..Len(r) |-> <<r[i], <<>>>>], s)

\* for removal in removals:
\*     if (index := input.find(removal)) >= 0: input = input[0:index]
\* for the removals lo..hi of r, in their order: those of the first half,
\* then on their result those of the second half.
RECURSIVE strip_past_range(_, _, _, _)
strip_past_range(r, lo, hi, s) ==
    IF lo > hi THEN s
    ELSE IF lo = hi
         THEN LET index == str_find(s, r[lo])
              IN  IF index >= 0 THEN SubSeq(s, 1, index) ELSE s
         ELSE LET mid == (lo + hi) \div 2
                  done == strip_past_range(r, lo, mid, s)
              IN  IF Len(done) >= 0
                  THEN strip_past_range(r, mid + 1, hi, done)
                  ELSE done

strip_past_cut(s, r) == strip_past_range(r, 1, Len(r), s)

strip_past(s, r) == str_rstrip(strip_past_cut(s, r))

\* LINE_ENDING_CHARS: danda and double danda.
LINE_ENDING_CHARS == << << \H0964 >>, << \H0965 >> >>

\* LINE_ENDING_PATTERNS: a danda or double danda and a Gurmukhi digit, the
\* double danda and " rahau", "||" and an ASCII digit, "||Pause".
LINE_ENDING_PATTERNS ==
    << << \H0964, \H0A67 >>,
       << \H0964, \H0A68 >>,
       << \H0964, \H0A69 >>,
       << \H0964, \H0A6A >>,
       << \H0964, \H0A6B >>,
       << \H0964, \H0A6C >>,
       << \H0964, \H0A6D >>,
       << \H0964, \H0A6E >>,
       << \H0964, \H0A6F >>,
       << \H0964, \H0A66 >>,
       << \H0965, \H0A67 >>,
       << \H0965, \H0A68 >>,
       << \H0965, \H0A69 >>,
       << \H0965, \H0A6A >>,
       << \H0965, \H0A6B >>,
       << \H0965, \H0A6C >>,
       << \H0965, \H0A6D >>,
       << \H0965, \H0A6E >>,
       << \H0965, \H0A6F >>,
       << \H0965, \H0A66 >>,
       << \H0965, \H20, \H0A30, \H0A39, \H0A3E, \H0A09 >>,
       << \H7C, \H7C, \H31 >>,
       << \H7C, \H7C, \H32 >>,
       << \H7C, \H7C, \H33 >>,
       << \H7C, \H7C, \H34 >>,
       << \H7C, \H7C, \H35 >>,
       << \H7C, \H7C, \H36 >>,
       << \H7C, \H7C, \H37 >>,
       << \H7C, \H7C, \H38 >>,
       << \H7C, \H7C, \H39 >>,
       << \H7C, \H7C, \H30 >>,
       << \H7C, \H7C, \H50, \H61, \H75, \H73, \H65 >> >>

(***************************************************************************)
(* The caller.                                                             *)
(***************************************************************************)
Standards == {"Unicode Consortium", "Sant Lipi"}

\* The state before any call, for a caller that starts from a text of T and
\* passes a unicode_standard of S.
InitFrom(T, S) ==
    /\ input \in T
    /\ string = input
    /\ op = "none"
    /\ calls = 0
    /\ arg = <<>>
    /\ unicode_standard \in S
    /\ moved = <<>>
    /\ mapped = <<>>
    /\ decoded = <<>>
    /\ encoded = <<>>
    /\ raised = "none"
    /\ removals = <<>>
    /\ as_list = FALSE
    /\ pc = "idle"

\* string = sort_diacritics(string)
SortDiacritics ==
    /\ calls < MaxCalls
    /\ arg' = string
    /\ IF sort_diacritics_raises(string)
       THEN string' = string /\ raised' = "ValueError"
       ELSE string' = sort_diacritics(string) /\ raised' = "none"
    /\ op' = "sort_diacritics"
    /\ calls' = calls + 1
    /\ UNCHANGED <<removals, as_list, pc>>
    /\ UNCHANGED <<input, unicode_standard, moved, mapped, decoded, encoded>>

\* Characters of the texts of SpecSort: nukta, yakash, sihari, hora, addak,
\* the joiner, the subjoined consonant ha and the base letter ka.
SortChars == { \H0A3C, \H0A75, \H0A3F, \H0A4B, \H0A71, \H0A4D, \H0A39, \H0A15 }

InitSort == InitFrom(Texts(SortChars, MaxSortLen), {"Unicode Consortium"})

NextSort == SortDiacritics

SpecSort == InitSort /\ [][NextSort]_vars


\* string = sanitize_unicode(string)
SanitizeUnicode ==
    /\ calls < MaxCalls
    /\ arg' = string
    /\ string' = sanitize_unicode(string)
    /\ raised' = "none"
    /\ op' = "sanitize_unicode"
    /\ calls' = calls + 1
    /\ UNCHANGED <<removals, as_list, pc>>
    /\ UNCHANGED <<input, unicode_standard, moved, mapped, decoded, encoded>>

\* string = unicode_normalize(string)
UnicodeNormalize ==
    /\ calls < MaxCalls
    /\ arg' = string
    /\ IF unicode_normalize_raises(string)
       THEN string' = string /\ raised' = "ValueError"
       ELSE string' = unicode_normalize(string) /\ raised' = "none"
    /\ op' = "unicode_normalize"
    /\ calls' = calls + 1
    /\ UNCHANGED <<removals, as_list, pc>>
    /\ UNCHANGED <<input, unicode_standard, moved, mapped, decoded, encoded>>

\* Characters of the texts of Spec: the letters khakha-with-nukta, lalla and
\* aira, and the marks nukta, sihari, kanna, addak and bindi.
NormalizeChars ==
    { \H0A59, \H0A32, \H0A05, \H0A3C, \H0A3F, \H0A3E, \H0A71, \H0A02 }

Init == InitFrom(Texts(NormalizeChars, MaxLen), {"Unicode Consortium"})

Next == SanitizeUnicode \/ UnicodeNormalize

Spec == Init /\ [][Next]_vars

\* string = unicode(string, unicode_standard); moved and mapped keep the
\* values the local `string' has after the first two steps.
Unicode ==
    /\ calls < MaxUnicodeCalls
    /\ LET m1 == move_sihari(string)
           m2 == replace_items(common_ascii_to_unicode_map, m1)
       IN  /\ moved' = m1
           /\ mapped' = m2
           /\ IF unicode_raises_from_mapped(m2)
              THEN string' = string /\ raised' = "ValueError"
              ELSE /\ string' = unicode_from_mapped(m2, unicode_standard)
                   /\ raised' = "none"
    /\ arg' = string
    /\ op' = "unicode"
    /\ calls' = calls + 1
    /\ UNCHANGED <<removals, as_list, pc>>
    /\ UNCHANGED <<input, unicode_standard, decoded, encoded>>

\* Characters of the texts of SpecUnicode: the legacy keys i (sihari),
\* a (ura), backslash (nyanya), ^ (khakha with nukta), ae (nukta),
\* I-circumflex (half-yayya) and @ (udaat), and the Unicode letter mamma.
LegacyChars == { \H69, \H61, \H5C, \H5E, \HE6, \HCE, \H40, \H0A2E }

InitUnicode == InitFrom(Texts(LegacyChars, MaxLegacyLen), Standards)

NextUnicode == Unicode

SpecUnicode == InitUnicode /\ [][NextUnicode]_vars

\* Characters of the texts of SpecMarkers: the legacy keys < and >, A-ring
\* and a-ring, AE (mapped to the empty string) and a (ura).
MarkerChars == { \H3C, \H3E, \HC5, \HE5, \HC6, \H61 }

InitMarkers == InitFrom(Texts(MarkerChars, MaxMarkerLen), {"Unicode Consortium"})

NextMarkers == Unicode

SpecMarkers == InitMarkers /\ [][NextMarkers]_vars

\* decoded = decode_unicode(string)
DecodeUnicode ==
    /\ calls < MaxCalls
    /\ arg' = string
    /\ decoded' = decode_unicode(string)
    /\ op' = "decode_unicode"
    /\ calls' = calls + 1
    /\ UNCHANGED <<removals, as_list, pc>>
    /\ UNCHANGED <<input, string, unicode_standard, moved, mapped, encoded, raised>>

\* encoded = encode_unicode(the hex strings of decoded); a raised exception
\* leaves the caller without a list.
EncodeUnicode ==
    /\ calls < MaxCalls
    /\ op = "decode_unicode"
    /\ LET strings == [i \in 1..Len(decoded) |-> decoded[i][2]]
       IN  IF encode_unicode_raises(strings)
           THEN encoded' = <<>> /\ raised' = "ValueError"
           ELSE encoded' = encode_unicode(strings) /\ raised' = "none"
    /\ op' = "encode_unicode"
    /\ calls' = calls + 1
    /\ UNCHANGED <<removals, as_list, pc>>
    /\ UNCHANGED <<input, string, arg, unicode_standard, moved, mapped, decoded>>

\* Characters of the texts of SpecCodec: NUL, space, "T", "o", the Gurmukhi
\* letters jajja and bihari, U+ABCD, U+FFFF, U+10000 and U+10FFFF.
CodecChars ==
    { \H0, \H20, \H54, \H6F, \H0A1C, \H0A40, \HABCD, \HFFFF, \H10000, \H10FFFF }

InitCodec == InitFrom(Texts(CodecChars, MaxCodecLen), {"Unicode Consortium"})

NextCodec == DecodeUnicode \/ EncodeUnicode

SpecCodec == InitCodec /\ [][NextCodec]_vars

\* encoded = encode_unicode(string) for a caller whose `string' is a list
\* of strings.  When int() or chr() raises, the function returns nothing and
\* the caller's `encoded' stays as it was.
EncodeUnicodeStrings ==
    /\ calls < MaxCalls
    /\ arg' = string
    /\ IF encode_unicode_raises(string)
       THEN encoded' = encoded /\ raised' = "ValueError"
       ELSE encoded' = encode_unicode(string) /\ raised' = "none"
    /\ op' = "encode_unicode"
    /\ calls' = calls + 1
    /\ UNCHANGED <<removals, as_list, pc>>
    /\ UNCHANGED <<input, string, unicode_standard, moved, mapped, decoded>>

\* Characters of the strings of SpecEncode: the digit "d", the letter "g"
\* (no digit of base 16) and the space.
HexChars == { \H64, \H67, \H20 }

\* The lists of at most k strings over HexChars with at most n characters in
\* all, each string of at most MaxHexLen characters.
RECURSIVE StringLists(_, _)
StringLists(k, n) ==
    IF k = 0 THEN {<<>>}
    ELSE {<<>>} \cup
         UNION {{<<s>> \o l : l \in StringLists(k - 1, n - Len(s))} :
                    s \in Texts(HexChars, IF n < MaxHexLen THEN n ELSE MaxHexLen)}

InitEncode == InitFrom(StringLists(MaxStrings, MaxHexChars), {"Unicode Consortium"})

NextEncode == EncodeUnicodeStrings

SpecEncode == InitEncode /\ [][NextEncode]_vars

\* Characters of the texts and removals of SpecStrip: "a", "b" and the space.
StripChars == { \H61, \H62, \H20 }

\* string = strip(string, *removals) for removals the caller chooses, given
\* as separate arguments or as one list.
Strip ==
    /\ calls < MaxStripCalls
    /\ \E r \in UNION {[1..k -> Texts(StripChars, MaxRemovalLen)] : k \in 0..MaxRemovals},
          l \in BOOLEAN :
          /\ removals' = r
          /\ as_list' = l
          /\ IF removals_raise(r, l)
             THEN string' = string /\ raised' = "IndexError"
             ELSE string' = strip(string, r) /\ raised' = "none"
    /\ arg' = string
    /\ op' = "strip"
    /\ calls' = calls + 1
    /\ UNCHANGED <<input, unicode_standard, moved, mapped, decoded, encoded, pc>>

\* string = strip_past(string, *removals)
StripPast ==
    /\ calls < MaxStripCalls
    /\ \E r \in UNION {[1..k -> Texts(StripChars, MaxRemovalLen)] : k \in 0..MaxRemovals},
          l \in BOOLEAN :
          /\ removals' = r
          /\ as_list' = l
          /\ IF removals_raise(r, l)
             THEN string' = string /\ raised' = "IndexError"
             ELSE string' = strip_past(string, r) /\ raised' = "none"
    /\ arg' = string
    /\ op' = "strip_past"
    /\ calls' = calls + 1
    /\ UNCHANGED <<input, unicode_standard, moved, mapped, decoded, encoded, pc>>

InitStrip == InitFrom(Texts(StripChars, MaxStripLen), {"Unicode Consortium"})

NextStrip == Strip \/ StripPast

SpecStrip == InitStrip /\ [][NextStrip]_vars

\* strip_line_endings(string), up to its loop: the local `input' after
\* strip_past(input, LINE_ENDING_PATTERNS) and the removal of the
\* LINE_ENDING_CHARS.  `string' holds the local `input' while pc = "while".
StripLineEndings ==
    /\ pc = "idle"
    /\ calls < MaxCalls
    /\ arg' = string
    /\ string' = strip(strip_past(string, LINE_ENDING_PATTERNS), LINE_ENDING_CHARS)
    /\ pc' = "while"
    /\ calls' = calls + 1
    /\ UNCHANGED <<input, op, unicode_standard, moved, mapped, decoded, encoded,
                   raised, removals, as_list>>

\* while "  " in input: input = input.replace("  ", " ")
CollapseSpaces ==
    /\ pc = "while"
    /\ Contains(string, << \H20, \H20 >>)
    /\ string' = str_replace(string, << \H20, \H20 >>, << \H20 >>)
    /\ UNCHANGED <<input, op, calls, arg, unicode_standard, moved, mapped, decoded,
                   encoded, raised, removals, as_list, pc>>

\* return input.strip(), when the loop has ended
ReturnStripped ==
    /\ pc = "while"
    /\ ~Contains(string, << \H20, \H20 >>)
    /\ string' = str_strip(string)
    /\ op' = "strip_line_endings"
    /\ pc' = "idle"
    /\ UNCHANGED <<input, calls, arg, unicode_standard, moved, mapped, decoded,
                   encoded, raised, removals, as_list>>

\* Characters of the texts of SpecLineEndings: danda, double danda, the
\* Gurmukhi digit one, the space and the letter sassa.
LineChars == { \H0964, \H0965, \H0A67, \H20, \H0A38 }

InitLineEndings == InitFrom(Texts(LineChars, MaxLineLen), {"Unicode Consortium"})

NextLineEndings == StripLineEndings \/ CollapseSpaces \/ ReturnStripped

\* A call that is inside its loop goes on: the code is sequential.
SpecLineEndings ==
    /\ InitLineEndings
    /\ [][NextLineEndings]_vars
    /\ WF_vars(CollapseSpaces)
    /\ WF_vars(ReturnStripped)

\* Characters of the texts of SpecResort: the joiner, the subjoined
\* consonant ha, nukta and the base letter ka.
ResortChars == { \H0A4D, \H0A39, \H0A3C, \H0A15 }

InitResort == InitFrom(Texts(ResortChars, MaxResortLen), {"Unicode Consortium"})

NextResort == SortDiacritics

SpecResort == InitResort /\ [][NextResort]_vars

\* Characters of the texts of SpecTotal: the joiner, the subjoined consonant
\* ha, nukta and the legacy key H (joiner and ha).
TotalChars == { \H0A4D, \H0A39, \H0A3C, \H48 }

InitTotal == InitFrom(Texts(TotalChars, MaxTotalLen), Standards)

NextTotal == SortDiacritics \/ SanitizeUnicode \/ UnicodeNormalize \/ Unicode

SpecTotal == InitTotal /\ [][NextTotal]_vars

(***************************************************************************)
(* Diacritic clusters, as the claims speak of them.                        *)
(***************************************************************************)

\* The canonical order: nukta, udaat, yakash, then the below-base ligature
\* (joiner, consonant), then the vowel signs sihari, lavan, dulavan, hora,
\* kanaura, aunkar, dulainkar, kanna, bihari, then the trailing marks adak
\* bindi, addak, bindi, tippi, visarga.
BelowBaseConsonants ==
    { \H0A39, \H0A30, \H0A35, \H0A1F, \H0A24, \H0A28, \H0A1A }

CanonicalOrder ==
    << { \H0A3C }, { \H0A51 }, { \H0A75 },
       { \H0A4D }, BelowBaseConsonants,
       { \H0A3F }, { \H0A47 }, { \H0A48 }, { \H0A4B }, { \H0A4C },
       { \H0A41 }, { \H0A42 }, { \H0A3E }, { \H0A40 },
       { \H0A01 }, { \H0A71 }, { \H0A02 }, { \H0A70 }, { \H0A03 } >>

CanonicalRank(c) == CHOOSE i \in 1..Len(CanonicalOrder) : c \in CanonicalOrder[i]

\* The combining marks: every rank but the joiner's and the consonants'.
Marks ==
    UNION {CanonicalOrder[i] : i \in 1..Len(CanonicalOrder)}
        \ ({ \H0A4D } \cup BelowBaseConsonants)

\* s[p] is the joiner of a below-base ligature.
IsLigatureStart(s, p) ==
    /\ p + 1 <= Len(s)
    /\ s[p] = \H0A4D
    /\ s[p + 1] \in BelowBaseConsonants

\* s[p] is a mark or one of the two characters of a below-base ligature.
InCluster(s, p) ==
    \/ s[p] \in Marks
    \/ IsLigatureStart(s, p)
    \/ p > 1 /\ IsLigatureStart(s, p - 1)

\* The maximal runs <<a, b>> of cluster characters of s.
ClusterRuns(s) ==
    { r \in (1..Len(s)) \X (1..Len(s)) :
        /\ r[1] <= r[2]
        /\ \A p \in r[1]..r[2] : InCluster(s, p)
        /\ r[1] = 1 \/ ~InCluster(s, r[1] - 1)
        /\ r[2] = Len(s) \/ ~InCluster(s, r[2] + 1) }

LigatureCount(s, a, b) == Cardinality({p \in a..b : IsLigatureStart(s, p)})

\* The diacritic clusters of s: the runs with at most one ligature.
Clusters(s) == {r \in ClusterRuns(s) : LigatureCount(s, r[1], r[2]) <= 1}

\* The number of occurrences of c in s[a..b].
Count(s, a, b, c) == Cardinality({p \in a..b : s[p] = c})

\* s is one whole diacritic cluster.
IsCluster(s) == Len(s) > 0 /\ <<1, Len(s)>> \in Clusters(s)

\* The units of a cluster: its marks, and its ligature as one unit.
RECURSIVE UnitsFrom(_, _)
UnitsFrom(s, p) ==
    IF p > Len(s) THEN <<>>
    ELSE IF IsLigatureStart(s, p)
         THEN <<SubSeq(s, p, p + 1)>> \o UnitsFrom(s, p + 2)
         ELSE <<SubSeq(s, p, p)>> \o UnitsFrom(s, p + 1)

Units(s) == UnitsFrom(s, 1)

RECURSIVE Flatten(_)
Flatten(u) == IF u = <<>> THEN <<>> ELSE u[1] \o Flatten(Tail(u))

\* The clusters made of the units of s in another order.
Rearrangements(s) ==
    LET u == Units(s)
    IN  {Flatten([i \in 1..Len(u) |-> u[pi[i]]]) : pi \in Permutations(1..Len(u))}

(***************************************************************************)
(* C3: after sort_diacritics every diacritic cluster of the text (a        *)
(* maximal run of marks with at most one below-base ligature) is in        *)
(* canonical order: the canonical ranks never decrease along the cluster.  *)
(***************************************************************************)
C3_ClustersInCanonicalOrder ==
    op = "sort_diacritics" =>
        \A r \in Clusters(string) :
            \A p \in r[1]..(r[2] - 1) :
                CanonicalRank(string[p]) <= CanonicalRank(string[p + 1])

\* A sort moved a ligature and two marks of a cluster into canonical order.
C3_Witness ==
    /\ op = "sort_diacritics"
    /\ string # arg
    /\ \E r \in Clusters(string) :
          /\ r[2] - r[1] >= 3
          /\ LigatureCount(string, r[1], r[2]) = 1

(***************************************************************************)
(* C4: the sort of a cluster does not depend on the order of its marks:    *)
(* every rearrangement of the units of a cluster (the ligature kept as one *)
(* unit) sorts to the same text as the cluster itself.                     *)
(***************************************************************************)
C4_OrderIndependent ==
    (op = "sort_diacritics" /\ calls = 1 /\ IsCluster(input)) =>
        \A t \in Rearrangements(input) : sort_diacritics(t) = string

\* A cluster of three different units and a ligature was sorted, and the
\* sort changed it.
C4_Witness ==
    /\ op = "sort_diacritics"
    /\ calls = 1
    /\ IsCluster(input)
    /\ Cardinality(Rearrangements(input)) >= 6
    /\ LigatureCount(input, 1, Len(input)) = 1
    /\ string # input

(***************************************************************************)
(* C5: sort_diacritics changes nothing outside the clusters: the result    *)
(* has the length of the argument, every character outside the runs of     *)
(* cluster characters keeps its index, and each run holds the same         *)
(* characters as before, as many times each.                               *)
(***************************************************************************)
C5_FrameOutsideClusters ==
    op = "sort_diacritics" =>
        /\ Len(string) = Len(arg)
        /\ \A p \in 1..Len(arg) : ~InCluster(arg, p) => string[p] = arg[p]
        /\ \A r \in ClusterRuns(arg) :
              \A c \in Chars(arg) \cup Chars(string) :
                  Count(string, r[1], r[2], c) = Count(arg, r[1], r[2], c)

\* A sort reordered a cluster that stands between two base letters.
C5_Witness ==
    /\ op = "sort_diacritics"
    /\ string # arg
    /\ Len(arg) >= 4
    /\ ~InCluster(arg, 1)
    /\ ~InCluster(arg, Len(arg))
    /\ string[1] = arg[1]
    /\ string[Len(arg)] = arg[Len(arg)]

(***************************************************************************)
(* C1: unicode_normalize is idempotent: the text unicode_normalize returns *)
(* is normalized to itself by a second unicode_normalize.                  *)
(***************************************************************************)
C1_NormalizeIdempotent ==
    op = "unicode_normalize" => unicode_normalize(string) = string

(***************************************************************************)
(* C6: the text sanitize_unicode returns contains no occurrence of any     *)
(* key (decomposed sequence) of the sanitization table.                    *)
(***************************************************************************)
C6_NoDecomposedSequenceLeft ==
    op = "sanitize_unicode" =>
        \A i \in 1..Len(unicode_sanitization_map) :
            ~Contains(string, unicode_sanitization_map[i][1])

(***************************************************************************)
(* C2: conversion converges by the second application: with the default   *)
(* standard, the third unicode() of a legacy-encoded text (a text over the *)
(* characters of the keys of the ASCII map) returns its argument, the      *)
(* result of the second.                                                   *)
(***************************************************************************)
LegacyKeyChars ==
    UNION {Chars(common_ascii_to_unicode_map[i][1]) :
               i \in 1..Len(common_ascii_to_unicode_map)}

C2_ConvergesBySecondApplication ==
    (/\ op = "unicode"
     /\ calls = 3
     /\ unicode_standard = "Unicode Consortium"
     /\ Chars(input) \subseteq LegacyKeyChars)
        => string = arg

(***************************************************************************)
(* C7: with the "Unicode Consortium" standard the text unicode() returns   *)
(* never contains a half-yayya (joiner, yayya) immediately followed by a   *)
(* mark: nukta, udaat, yakash, a vowel sign or a trailing mark.            *)
(***************************************************************************)
C7_NoHalfYayyaBeforeMark ==
    (op = "unicode" /\ unicode_standard = "Unicode Consortium") =>
        \A p \in 1..Len(string) :
            ~(/\ StartsWith(string, p, << \H0A4D, \H0A2F >>)
              /\ p + 2 <= Len(string)
              /\ string[p + 2] \in Marks)

(***************************************************************************)
(* C8: before any substitution, unicode() moves every legacy sihari "i"    *)
(* that immediately precedes a legacy base letter (a-z, A-Z, backslash,    *)
(* "|", "^", "&", I-circumflex, i-circumflex, i-diaeresis) to immediately  *)
(* after that letter, left to right over non-overlapping pairs; any other  *)
(* "i" and every other character keeps its position.                       *)
(***************************************************************************)
LegacyBaseLetters ==
    (\H61..\H7A) \cup (\H41..\H5A)
        \cup { \H5C, \H7C, \H5E, \H26, \HCE, \HEE, \HEF }

RECURSIVE SihariBehindLetters(_, _)
SihariBehindLetters(s, p) ==
    IF p > Len(s) THEN <<>>
    ELSE IF s[p] = \H69 /\ p + 1 <= Len(s) /\ s[p + 1] \in LegacyBaseLetters
         THEN <<s[p + 1], s[p]>> \o SihariBehindLetters(s, p + 2)
         ELSE <<s[p]>> \o SihariBehindLetters(s, p + 1)

C8_SihariMovedBehindBaseLetter ==
    op = "unicode" => moved = SihariBehindLetters(arg, 1)

(***************************************************************************)
(* C9: the ASCII-to-Unicode substitution is first-declared-wins and        *)
(* non-overlapping: replacing key after key over the declared table gives  *)
(* the result of one left-to-right scan that at each position applies the  *)
(* first declared key matching there and resumes behind the replaced span; *)
(* and every "<>" and every A-ring a-ring pair yields exactly one ek       *)
(* onkar: the result is the substitution of the text before the pair, one  *)
(* ek onkar, and the substitution of the text after the pair.              *)
(***************************************************************************)
MatchingKeys(map, s, p) == {i \in 1..Len(map) : StartsWith(s, p, map[i][1])}

FirstMatchingKey(map, s, p) ==
    CHOOSE i \in MatchingKeys(map, s, p) : \A j \in MatchingKeys(map, s, p) : i <= j

RECURSIVE ScanFirstDeclared(_, _, _)
ScanFirstDeclared(map, s, p) ==
    IF p > Len(s) THEN <<>>
    ELSE IF MatchingKeys(map, s, p) = {}
         THEN <<s[p]>> \o ScanFirstDeclared(map, s, p + 1)
         ELSE LET i == FirstMatchingKey(map, s, p)
              IN  map[i][2] \o ScanFirstDeclared(map, s, p + Len(map[i][1]))

EkOnkarPairs == { << \H3C, \H3E >>, << \HC5, \HE5 >> }

C9_FirstDeclaredWins ==
    op = "unicode" =>
        /\ mapped = ScanFirstDeclared(common_ascii_to_unicode_map, moved, 1)
        /\ \A p \in 1..Len(moved) :
              (\E k \in EkOnkarPairs : StartsWith(moved, p, k)) =>
                  mapped =
                      replace_items(common_ascii_to_unicode_map,
                                    SubSeq(moved, 1, p - 1))
                          \o << \H0A74 >>
                          \o replace_items(common_ascii_to_unicode_map,
                                           SubSeq(moved, p + 2, Len(moved)))

\* A text with a "<>", a deleted key and a lone ">" was substituted: one ek
\* onkar and one khanda came out.
C9_Witness ==
    /\ op = "unicode"
    /\ calls = 1
    /\ Contains(moved, << \H3C, \H3E >>)
    /\ \HC6 \in Chars(moved)
    /\ Count(mapped, 1, Len(mapped), \H0A74) = 1
    /\ Count(mapped, 1, Len(mapped), \H262C) = 1

(***************************************************************************)
(* C10: the codepoint codec round-trips: decode_unicode gives one entry    *)
(* per character of the text, in the order of the text, each with the      *)
(* character and a string of at least four lowercase hexadecimal digits;   *)
(* encode_unicode of those strings raises nothing and returns the          *)
(* characters of the text.                                                 *)
(***************************************************************************)
LowercaseHexDigits == (\H30..\H39) \cup (\H61..\H66)

HexDigits == (\H30..\H39) \cup (\H61..\H66) \cup (\H41..\H46)

Surrogates == \HD800..\HDFFF

IsScalarValueHex(s) ==
    /\ s # <<>>
    /\ Chars(s) \subseteq HexDigits
    /\ int_value(s) \in (0..\H10FFFF) \ Surrogates

C11_InvalidStringRejected ==
    (/\ op = "encode_unicode"
     /\ \E i \in 1..Len(arg) : ~IsScalarValueHex(arg[i]))
        => (raised = "ValueError" /\ encoded = <<>>)


(***************************************************************************)
(* C12: strip_past returns the input up to the first occurrence of the     *)
(* removals: the prefix of the input that ends just before the earliest    *)
(* index at which any removal occurs in the input, without its trailing    *)
(* whitespace; the input without its trailing whitespace when no removal   *)
(* occurs.                                                                 *)
(***************************************************************************)
RemovalIndexes(s, r) ==
    {p - 1 : p \in {q \in 1..(Len(s) + 1) :
                        \E i \in 1..Len(r) : StartsWith(s, q, r[i])}}

EarliestIndex(S) == CHOOSE m \in S : \A n \in S : m <= n

C12_PrefixBeforeEarliestRemoval ==
    (op = "strip_past" /\ raised = "none") =>
        string =
            str_rstrip(IF RemovalIndexes(arg, removals) = {} THEN arg
                       ELSE SubSeq(arg, 1,
                                   EarliestIndex(RemovalIndexes(arg, removals))))

(***************************************************************************)
(* C13: strip returns the input without the removals, given as separate    *)
(* arguments or as one list: no removal string occurs anywhere in the      *)
(* result, and the result is made of characters of the input in their      *)
(* original relative order.                                                *)
(***************************************************************************)
RECURSIVE IsSubsequence(_, _)
IsSubsequence(t, s) ==
    IF t = <<>> THEN TRUE
    ELSE IF s = <<>> THEN FALSE
         ELSE IF t[1] = s[1] THEN IsSubsequence(Tail(t), Tail(s))
              ELSE IsSubsequence(t, Tail(s))

C13_NoRemovalInResult ==
    (op = "strip" /\ raised = "none") =>
        /\ \A i \in 1..Len(removals) :
              removals[i] # <<>> => ~Contains(string, removals[i])
        /\ IsSubsequence(string, arg)


(***************************************************************************)
(* C14: strip_line_endings returns the text before the first line-ending   *)
(* pattern with the line-ending characters removed and spacing normalized: *)
(* the result has no danda and no double danda, no two consecutive spaces  *)
(* and no whitespace at its start or end, and its other characters are     *)
(* those of the text before the first pattern, in their order; and the     *)
(* space-collapsing loop of every call ends.                               *)
(***************************************************************************)
Dandas == { \H0964, \H0965 }

\* s without its characters of C.
RECURSIVE Without(_, _)
Without(s, C) ==
    IF s = <<>> THEN <<>>
    ELSE (IF s[1] \in C THEN <<>> ELSE <<s[1]>>) \o Without(Tail(s), C)

BeforeFirstPattern(s) ==
    IF RemovalIndexes(s, LINE_ENDING_PATTERNS) = {} THEN s
    ELSE SubSeq(s, 1, EarliestIndex(RemovalIndexes(s, LINE_ENDING_PATTERNS)))

C14_LineEndingsStripped ==
    /\ []((op = "strip_line_endings" /\ pc = "idle") =>
            /\ Chars(string) \cap Dandas = {}
            /\ ~Contains(string, << \H20, \H20 >>)
            /\ string # <<>> =>
                  /\ string[1] \notin str_whitespace
                  /\ string[Len(string)] \notin str_whitespace
            /\ Without(string, str_whitespace) =
                  Without(BeforeFirstPattern(arg), Dandas \cup str_whitespace))
    /\ [](pc = "while" => <>(pc = "idle"))

\* A call returned a text whose two spaces came together when a danda
\* between them was removed, collapsed by the loop.
C14_Witness ==
    /\ op = "strip_line_endings"
    /\ pc = "idle"
    /\ string # <<>>
    /\ Len(string) >= 3
    /\ Chars(arg) \cap Dandas # {}
    /\ ~Contains(arg, << \H20, \H20 >>)
    /\ Contains(strip(arg, LINE_ENDING_CHARS), << \H20, \H20 >>)


(***************************************************************************)
(* C15: a second diacritic sort is a no-op: the text sort_diacritics       *)
(* returns is sorted to itself by another sort_diacritics.                 *)
(***************************************************************************)
C15_SecondSortNoOp ==
    (op = "sort_diacritics" /\ raised = "none") =>
        sort_diacritics(string) = string

(***************************************************************************)
(* C16: the core text operations are total: sort_diacritics,               *)
(* sanitize_unicode, unicode_normalize and unicode raise nothing for any   *)
(* text (texts with two or more below-base ligatures in a row, with a      *)
(* joiner that no consonant follows, and the empty text included); and     *)
(* every character of a span the cluster pattern matches, at any position  *)
(* of the text, has an index in the canonical order string that is the     *)
(* sort key.                                                               *)
(***************************************************************************)
C16_CoreOperationsTotal ==
    /\ op \in {"sort_diacritics", "sanitize_unicode", "unicode_normalize", "unicode"}
          => raised = "none"
    /\ \A p \in 1..Len(string) :
          \A q \in p..(p + regex_match_pattern(string, p) - 1) :
              str_index(generated_diacritic_order, string[q]) # ValueError

\* unicode() was called on a text with two below-base ligatures in a row
\* and a joiner at its end, and a sort of its result returned.
C16_Witness ==
    /\ op = "sort_diacritics"
    /\ calls = 2
    /\ raised = "none"
    /\ input # <<>>
    /\ input[Len(input)] = \H0A4D
    /\ \E r \in ClusterRuns(arg) : LigatureCount(arg, r[1], r[2]) >= 2

=============================================================================
